---- MODULE Spec2Model ----
(***************************************************************************)
(* demoterm: a terminal recorder.  `demoterm start` forks a background     *)
(* recorder process (run_recorder) that captures the input and output of a *)
(* shell running under a pseudo-terminal into an event log;                *)
(* `demoterm stop` signals the recorder, waits for the PID file to         *)
(* disappear and replays the persisted log into GIF frames (generate_gif). *)
(*                                                                         *)
(* The model has one process per command-line invocation, one recorder     *)
(* process per successful fork, and inside each recorder the main thread,  *)
(* the reader thread, the writer thread, the checkpoint thread and the     *)
(* signal handler.  The three files of main.rs are shared state.           *)
(***************************************************************************)
EXTENDS Integers, Sequences, FiniteSets, TLC

\* ------------------------------------------------------------------ bounds
NumStarts == 2      \* `demoterm start` invocations
NumStops == 2       \* `demoterm stop` invocations
MaxReads == 2       \* non-empty reads of the capture threads in one session
MaxClock == 1       \* largest reading of the monotonic clock, in ms
MaxLogLen == 2      \* length of a persisted log handed to the replay alone
QuietReads == 1     \* non-empty reads of a quiet terminal

\* ------------------------------------------------------- program constants
RETRIES == 10       \* let mut retries = 10

Starts == 1..NumStarts
Recs == Starts      \* the recorder forked by start command s is recorder s
Stops == 1..NumStops

\* ------------------------------------------------------------------ values
\* Option<String>
None == <<>>
Some(s) == <<s>>

\* raw byte chunks a read() may return (n > 0): the PTY yields "h" and
\* stdin "i", each followed by a byte that is not UTF-8
OutChunks == {<<104, 255>>}
InChunks == {<<105, 200>>}

REPLACEMENT == 65533    \* U+FFFD

\* String::from_utf8_lossy(&buffer[..n]).to_string() on the byte values used
\* here: an ASCII byte is its own character, any other byte is replaced.
RECURSIVE from_utf8_lossy(_)
from_utf8_lossy(bytes) ==
    IF bytes = <<>> THEN <<>>
    ELSE <<IF Head(bytes) < 128 THEN Head(bytes) ELSE REPLACEMENT>>
         \o from_utf8_lossy(Tail(bytes))

\* TerminalEvent
TerminalEvent(t, in, out) == [timestamp |-> t, input |-> in, output |-> out]

\* ------------------------------------------------------------------- files
\* A file is absent, or holds a text.  A text is a sequence of items and a
\* flag telling whether it is a complete document.
NoFile == [exists |-> FALSE, items |-> <<>>, closed |-> FALSE]
Text(items, closed) == [exists |-> TRUE, items |-> items, closed |-> closed]

\* File::create: the file exists and is empty (truncated)
FileCreate == Text(<<>>, FALSE)

\* pid.to_string(): the decimal digits of the pid
RECURSIVE Digits(_)
Digits(n) == IF n < 10 THEN <<n>> ELSE Digits(n \div 10) \o <<n % 10>>

\* the process id of recorder r
getpid(r) == 40 + r

PidText(r) == Text(Digits(getpid(r)), TRUE)

\* pid_str.trim().parse::<i32>(): the number, or -1 for Err (empty text)
RECURSIVE ParseDigits(_, _)
ParseDigits(ds, acc) ==
    IF ds = <<>> THEN acc ELSE ParseDigits(Tail(ds), acc * 10 + Head(ds))

ParsePid(text) == IF text.items = <<>> THEN -1 ELSE ParseDigits(text.items, 0)

\* serde_json: Option<String> as null or a string, a TerminalEvent as an object
JNull == <<"null">>
JString(s) == <<"string", s>>

\* a faulty encoding: an absent payload is written as the empty string
ToJsonOptionEmpty(o) == JString(IF o = None THEN <<>> ELSE o[1])

ToJsonOption(o) == IF o = None THEN JNull ELSE JString(o[1])
FromJsonOption(j) == IF j = JNull THEN None ELSE Some(j[2])

ToJsonEvent(e) ==
    [timestamp |-> e.timestamp,
     input |-> ToJsonOption(e.input),
     output |-> ToJsonOption(e.output)]

FromJsonEvent(o) ==
    TerminalEvent(o.timestamp, FromJsonOption(o.input), FromJsonOption(o.output))

\* serde_json::to_string(&*events): a complete array document
to_string(evs) == Text([i \in 1..Len(evs) |-> ToJsonEvent(evs[i])], TRUE)

\* serde_json::from_str succeeds on a complete document only
DecodeOk(text) == text.closed
from_str(text) == [i \in 1..Len(text.items) |-> FromJsonEvent(text.items[i])]

\* ------------------------------------------------------------------- state
VARIABLES
    pidFile,    \* PID_FILE
    recFile,    \* RECORDING_FILE
    gifFile,    \* GIF_FILE: absent, or the frames written so far
    budget,     \* what the environment may still do: chunks to deliver
    startPc,    \* per start command: its position in main
    mainPc,     \* per recorder: position of the main thread in run_recorder
    running,    \* per recorder: the liveness flag
    handler,    \* per recorder: the signal handler is installed
    sig,        \* per recorder: a delivered SIGTERM the handler has not run for
    elapsed,    \* per recorder: the last reading of start_time.elapsed()
    shell,      \* per recorder: the subprocess: none, alive, ended (by itself
                \* or by kill) and not waited for, or reaped
    lock,       \* per recorder: holder of the events mutex
    events,     \* per recorder: the event log
    rdPc,       \* per recorder: reader thread
    rdBuf,      \* per recorder: chunk the reader thread holds
    rdHist,     \* per recorder: chunks the reader thread has read (history)
    wrPc,       \* per recorder: writer thread
    wrBuf,      \* per recorder: chunk the writer thread holds
    ptyIn,      \* per recorder: chunks written to the PTY
    ckPc,       \* per recorder: checkpoint thread
    stopPc,     \* per stop command: its position in main
    stopPid,    \* per stop command: the pid it parsed
    retries,    \* per stop command: the retries counter
    gif         \* per stop command: the state of generate_gif

vars == <<pidFile, recFile, gifFile, budget, startPc, mainPc, running, handler,
          sig, elapsed, shell, lock, events, rdPc, rdBuf, rdHist, wrPc,
          wrBuf, ptyIn, ckPc, stopPc, stopPid, retries, gif>>

fileVars == <<pidFile, recFile, gifFile>>
threadVars == <<rdPc, rdBuf, rdHist, wrPc, wrBuf, ptyIn, ckPc>>
memVars == <<running, handler, sig, elapsed, lock, events>>
stopVars == <<stopPc, stopPid, retries, gif>>

NoGif == [exists |-> FALSE, frames |-> <<>>]
GifIdle == [pc |-> "idle", events |-> <<>>, screen |-> <<>>, frames |-> <<>>,
            log |-> <<>>]

\* No session; the commands in `starts` will be issued, those in `stops`
\* stand at `at`, and the recording file is `rec`.
InitWith(starts, stops, at, reads, rec) ==
    /\ pidFile = NoFile
    /\ recFile = rec
    /\ gifFile = NoGif
    /\ budget = [reads |-> reads]
    /\ startPc = [s \in Starts |-> IF s \in starts THEN "idle" ELSE "unused"]
    /\ mainPc = [r \in Recs |-> "none"]
    /\ running = [r \in Recs |-> FALSE]
    /\ handler = [r \in Recs |-> FALSE]
    /\ sig = [r \in Recs |-> FALSE]
    /\ elapsed = [r \in Recs |-> 0]
    /\ shell = [r \in Recs |-> "none"]
    /\ lock = [r \in Recs |-> "none"]
    /\ events = [r \in Recs |-> <<>>]
    /\ rdPc = [r \in Recs |-> "off"]
    /\ rdBuf = [r \in Recs |-> <<>>]
    /\ rdHist = [r \in Recs |-> <<>>]
    /\ wrPc = [r \in Recs |-> "off"]
    /\ wrBuf = [r \in Recs |-> <<>>]
    /\ ptyIn = [r \in Recs |-> <<>>]
    /\ ckPc = [r \in Recs |-> "off"]
    /\ stopPc = [c \in Stops |-> IF c \in stops THEN at ELSE "unused"]
    /\ stopPid = [c \in Stops |-> 0]
    /\ retries = [c \in Stops |-> 0]
    /\ gif = [c \in Stops |-> GifIdle]

\* how a recorder process can have ended: exit 0, exit 1 after an error of
\* run_recorder, or the default action of SIGTERM
Errors == {"err_pid", "err_pty", "err_spawn", "err_reader", "err_writer",
           "err_kill", "err_persist", "err_remove"}
Ended == {"exit0", "killed"} \cup Errors

\* the recorder process exists and has not ended
Alive(r) == mainPc[r] \notin {"none"} \cup Ended

\* the end of a recorder process takes its threads and its memory with it
ProcessEnds(r, how) ==
    /\ mainPc' = [mainPc EXCEPT ![r] = how]
    /\ rdPc' = [rdPc EXCEPT ![r] = "off"]
    /\ wrPc' = [wrPc EXCEPT ![r] = "off"]
    /\ ckPc' = [ckPc EXCEPT ![r] = "off"]
    /\ lock' = [lock EXCEPT ![r] = "none"]
    /\ sig' = [sig EXCEPT ![r] = FALSE]
    /\ running' = [running EXCEPT ![r] = FALSE]
    /\ handler' = [handler EXCEPT ![r] = FALSE]
    /\ elapsed' = [elapsed EXCEPT ![r] = 0]
    /\ events' = [events EXCEPT ![r] = <<>>]
    /\ rdBuf' = [rdBuf EXCEPT ![r] = <<>>]
    /\ rdHist' = [rdHist EXCEPT ![r] = <<>>]
    /\ wrBuf' = [wrBuf EXCEPT ![r] = <<>>]
    /\ ptyIn' = [ptyIn EXCEPT ![r] = <<>>]

\* a faulty error exit: the PID file is removed on the way out
FailCleaning(r, why) ==
    /\ ProcessEnds(r, why)
    /\ pidFile' = NoFile
    /\ UNCHANGED <<recFile, gifFile, budget, startPc, shell, stopVars>>

\* lines 69-72: run_recorder returns Err(e) through `?`; main prints the
\* error and the process exits with status 1
Fail(r, why) ==
    /\ ProcessEnds(r, why)
    /\ UNCHANGED <<fileVars, budget, startPc, shell, stopVars>>

\* the main thread moves on
Goto(r, pc) == mainPc' = [mainPc EXCEPT ![r] = pc]

\* ------------------------------------------------------- `demoterm start`
\* a faulty start: the PID file is not looked at
StartCheckBlind(s) ==
    /\ startPc[s] = "idle"
    /\ startPc' = [startPc EXCEPT ![s] = "fork"]
    /\ UNCHANGED <<fileVars, budget, mainPc, memVars, shell, threadVars,
                   stopVars>>

\* Commands::Start, lines 55-58: the check for the PID file
StartCheck(s) ==
    /\ startPc[s] = "idle"
    /\ startPc' = [startPc EXCEPT ![s] =
                     IF pidFile.exists THEN "AlreadyRunning" ELSE "fork"]
    /\ UNCHANGED <<fileVars, budget, mainPc, memVars, shell, threadVars,
                   stopVars>>

\* lines 61-78: fork; the parent exits 0, the child runs run_recorder
StartFork(s) ==
    /\ startPc[s] = "fork"
    /\ \/ /\ startPc' = [startPc EXCEPT ![s] = "Started"]
          /\ mainPc' = [mainPc EXCEPT ![s] = "write_pid"]
       \/ /\ startPc' = [startPc EXCEPT ![s] = "ForkFailed"]
          /\ UNCHANGED mainPc
    /\ UNCHANGED <<fileVars, budget, memVars, shell, threadVars, stopVars>>

\* ------------------------------------------------- run_recorder, main thread
\* line 140, fs::write(PID_FILE, ..): File::create
RecCreatePid(r) ==
    /\ mainPc[r] = "write_pid"
    /\ \/ /\ pidFile' = FileCreate
          /\ Goto(r, "write_pid2")
          /\ UNCHANGED <<recFile, gifFile, budget, startPc, memVars, shell,
                         threadVars, stopVars>>
       \/ Fail(r, "err_pid")

\* line 140, fs::write(PID_FILE, ..): write_all of pid.to_string()
RecWritePid(r) ==
    /\ mainPc[r] = "write_pid2"
    /\ \/ /\ pidFile' = PidText(r)
          /\ Goto(r, "set_handler")
          /\ UNCHANGED <<recFile, gifFile, budget, startPc, memVars, shell,
                         threadVars, stopVars>>
       \/ Fail(r, "err_pid")

\* lines 143-156: the liveness flag, the signal handler, the empty log and
\* the start instant
RecSetHandler(r) ==
    /\ mainPc[r] = "set_handler"
    /\ running' = [running EXCEPT ![r] = TRUE]
    /\ handler' = [handler EXCEPT ![r] = TRUE]
    /\ events' = [events EXCEPT ![r] = <<>>]
    /\ elapsed' = [elapsed EXCEPT ![r] = 0]
    /\ Goto(r, "openpty")
    /\ UNCHANGED <<fileVars, budget, startPc, sig, shell, lock, threadVars,
                   stopVars>>

\* lines 159-167: openpty
RecOpenPty(r) ==
    /\ mainPc[r] = "openpty"
    /\ \/ /\ Goto(r, "spawn")
          /\ UNCHANGED <<fileVars, budget, startPc, memVars, shell,
                         threadVars, stopVars>>
       \/ Fail(r, "err_pty")

\* lines 169-172: spawn_command("/bin/bash")
RecSpawn(r) ==
    /\ mainPc[r] = "spawn"
    /\ \/ /\ Goto(r, "clone_reader")
          /\ shell' = [shell EXCEPT ![r] = "alive"]
          /\ UNCHANGED <<fileVars, budget, startPc, memVars, threadVars,
                         stopVars>>
       \/ Fail(r, "err_spawn")

\* lines 175-197: try_clone_reader, then the reader thread starts
RecCloneReader(r) ==
    /\ mainPc[r] = "clone_reader"
    /\ \/ /\ Goto(r, "take_writer")
          /\ rdPc' = [rdPc EXCEPT ![r] = "read"]
          /\ UNCHANGED <<fileVars, budget, startPc, memVars, shell, rdBuf,
                         rdHist, wrPc, wrBuf, ptyIn, ckPc, stopVars>>
       \/ Fail(r, "err_reader")

\* lines 200-242: take_writer, then the writer thread and the checkpoint
\* thread start and the main thread enters its loop
RecTakeWriter(r) ==
    /\ mainPc[r] = "take_writer"
    /\ \/ /\ Goto(r, "poll")
          /\ wrPc' = [wrPc EXCEPT ![r] = "read"]
          /\ ckPc' = [ckPc EXCEPT ![r] = "sleep"]
          /\ UNCHANGED <<fileVars, budget, startPc, memVars, shell, rdPc,
                         rdBuf, rdHist, wrBuf, ptyIn, stopVars>>
       \/ Fail(r, "err_writer")

\* lines 146-149: the handler runs for a delivered signal
Handler(r) ==
    /\ Alive(r)
    /\ sig[r]
    /\ sig' = [sig EXCEPT ![r] = FALSE]
    /\ running' = [running EXCEPT ![r] = FALSE]
    /\ UNCHANGED <<fileVars, budget, startPc, mainPc, handler, elapsed,
                   shell, lock, events, threadVars, stopVars>>

\* a faulty control loop: it tests a copy of the flag taken before the loop
RecPollStale(r) ==
    /\ mainPc[r] = "poll"
    /\ UNCHANGED vars

\* lines 245-247: the control loop reads the flag; it leaves the loop when
\* the flag is false and sleeps 100 ms otherwise
RecPoll(r) ==
    /\ mainPc[r] = "poll"
    /\ IF running[r] THEN UNCHANGED mainPc ELSE Goto(r, "kill")
    /\ UNCHANGED <<fileVars, budget, startPc, memVars, shell, threadVars,
                   stopVars>>

\* a faulty termination: signalling a child that has exited is an error
RecKillStrict(r) ==
    /\ mainPc[r] = "kill"
    /\ IF shell[r] = "alive"
       THEN /\ Goto(r, "wait")
            /\ shell' = [shell EXCEPT ![r] = "hungup"]
            /\ UNCHANGED <<fileVars, budget, startPc, memVars, threadVars,
                           stopVars>>
       ELSE Fail(r, "err_kill")

\* line 250, shell.kill()?: a child that has exited and was not waited for
\* is signalled without error; signalling a live child may fail
RecKill(r) ==
    /\ mainPc[r] = "kill"
    /\ \/ /\ Goto(r, "wait")
          /\ shell' = [shell EXCEPT ![r] =
                         IF @ = "alive" THEN "hungup" ELSE @]
          /\ UNCHANGED <<fileVars, budget, startPc, memVars, threadVars,
                         stopVars>>
       \/ /\ shell[r] = "alive"
          /\ Fail(r, "err_kill")

\* line 253, let _ = shell.wait(): the child is reaped, its status dropped
RecWait(r) ==
    /\ mainPc[r] = "wait"
    /\ Goto(r, "lock")
    /\ shell' = [shell EXCEPT ![r] =
                   IF @ = "exited" THEN "reaped_exited" ELSE "reaped_hungup"]
    /\ UNCHANGED <<fileVars, budget, startPc, memVars, threadVars, stopVars>>

\* line 256, events.lock(): the guard lives until run_recorder returns
RecLock(r) ==
    /\ mainPc[r] = "lock"
    /\ lock[r] = "none"
    /\ lock' = [lock EXCEPT ![r] = "main"]
    /\ Goto(r, "persist")
    /\ UNCHANGED <<fileVars, budget, startPc, running, handler, sig, elapsed,
                   events, shell, threadVars, stopVars>>

\* lines 257-258: to_string, then fs::write's File::create
RecPersistCreate(r) ==
    /\ mainPc[r] = "persist"
    /\ \/ /\ recFile' = FileCreate
          /\ Goto(r, "persist2")
          /\ UNCHANGED <<pidFile, gifFile, budget, startPc, memVars, shell,
                         threadVars, stopVars>>
       \/ Fail(r, "err_persist")

\* a faulty final persist: the result of the write is dropped (let _ =)
RecPersistWriteUnchecked(r) ==
    /\ mainPc[r] = "persist2"
    /\ \/ recFile' = to_string(events[r])
       \/ UNCHANGED recFile
    /\ Goto(r, "remove")
    /\ UNCHANGED <<pidFile, gifFile, budget, startPc, memVars, shell,
                   threadVars, stopVars>>

\* line 258: fs::write's write_all of the serialized log
RecPersistWrite(r) ==
    /\ mainPc[r] = "persist2"
    /\ \/ /\ recFile' = to_string(events[r])
          /\ Goto(r, "remove")
          /\ UNCHANGED <<pidFile, gifFile, budget, startPc, memVars, shell,
                         threadVars, stopVars>>
       \/ Fail(r, "err_persist")

\* lines 261-263: fs::remove_file(PID_FILE)?, then Ok(()): the guard of
\* line 256 is dropped
RecRemovePid(r) ==
    /\ mainPc[r] = "remove"
    /\ \/ /\ pidFile.exists
          /\ pidFile' = NoFile
          /\ Goto(r, "ret_ok")
          /\ lock' = [lock EXCEPT ![r] = "none"]
          /\ UNCHANGED <<recFile, gifFile, budget, startPc, running, handler,
                         sig, elapsed, events, shell, threadVars, stopVars>>
       \/ Fail(r, "err_remove")

\* line 133: main returns Ok(()) and the recorder process exits 0
RecExit(r) ==
    /\ mainPc[r] = "ret_ok"
    /\ ProcessEnds(r, "exit0")
    /\ UNCHANGED <<fileVars, budget, startPc, shell, stopVars>>

\* the shell ends by itself (the user leaves it)
ShellExit(r) ==
    /\ Alive(r)
    /\ shell[r] = "alive"
    /\ shell' = [shell EXCEPT ![r] = "exited"]
    /\ UNCHANGED <<fileVars, budget, startPc, mainPc, memVars, threadVars,
                   stopVars>>

\* --------------------------------------------------------- capture threads
\* a faulty push: an unsynchronised append that writes over the last slot
push_over(log, e) ==
    IF log = <<>> THEN <<e>> ELSE [log EXCEPT ![Len(log)] = e]

\* events.push(e)
push(log, e) == Append(log, e)

\* a faulty reader thread: the end of the PTY's output ends the session
ReaderReadStops(r) ==
    /\ Alive(r)
    /\ rdPc[r] = "read"
    /\ \/ /\ rdPc' = [rdPc EXCEPT ![r] = "done"]
          /\ running' = [running EXCEPT ![r] = FALSE]
          /\ UNCHANGED <<rdBuf, rdHist, budget>>
       \/ /\ budget.reads > 0
          /\ budget' = [budget EXCEPT !.reads = @ - 1]
          /\ \E chunk \in OutChunks :
                /\ rdBuf' = [rdBuf EXCEPT ![r] = chunk]
                /\ rdHist' = [rdHist EXCEPT ![r] = Append(@, chunk)]
          /\ rdPc' = [rdPc EXCEPT ![r] = "push"]
          /\ UNCHANGED running
    /\ UNCHANGED <<fileVars, startPc, mainPc, handler, sig, elapsed, lock,
                   events, shell, wrPc, wrBuf, ptyIn, ckPc, stopVars>>

\* line 183, reader.read(&mut buffer): Ok(0) and Err(_) end the thread,
\* Ok(n) yields a chunk
ReaderRead(r) ==
    /\ Alive(r)
    /\ rdPc[r] = "read"
    /\ \/ /\ rdPc' = [rdPc EXCEPT ![r] = "done"]
          /\ UNCHANGED <<rdBuf, rdHist, budget>>
       \/ /\ budget.reads > 0
          /\ budget' = [budget EXCEPT !.reads = @ - 1]
          /\ \E chunk \in OutChunks :
                /\ rdBuf' = [rdBuf EXCEPT ![r] = chunk]
                /\ rdHist' = [rdHist EXCEPT ![r] = Append(@, chunk)]
          /\ rdPc' = [rdPc EXCEPT ![r] = "push"]
    /\ UNCHANGED <<fileVars, startPc, mainPc, memVars, shell, wrPc, wrBuf,
                   ptyIn, ckPc, stopVars>>

\* a faulty clock: wall-clock time, which can be set back
ClockWall(r) == 0..MaxClock

\* Instant::elapsed: a monotonic clock never reads less than it did before
ClockReadings(r) == elapsed[r]..MaxClock

\* lines 186-192: decode, lock, push an output event stamped with the
\* clock's reading, unlock
ReaderPush(r) ==
    /\ Alive(r)
    /\ rdPc[r] = "push"
    /\ lock[r] = "none"
    /\ \E t \in ClockReadings(r) :
          /\ elapsed' = [elapsed EXCEPT ![r] = t]
          /\ events' = [events EXCEPT ![r] =
                          push(@, TerminalEvent(t, None,
                                     Some(from_utf8_lossy(rdBuf[r]))))]
    /\ rdPc' = [rdPc EXCEPT ![r] = "read"]
    /\ rdBuf' = [rdBuf EXCEPT ![r] = <<>>]
    /\ UNCHANGED <<fileVars, budget, startPc, mainPc, running, handler, sig,
                   shell, lock, rdHist, wrPc, wrBuf, ptyIn, ckPc, stopVars>>

\* line 210, handle.read(&mut buffer) on stdin
WriterRead(r) ==
    /\ Alive(r)
    /\ wrPc[r] = "read"
    /\ \/ /\ wrPc' = [wrPc EXCEPT ![r] = "done"]
          /\ UNCHANGED <<wrBuf, budget>>
       \/ /\ budget.reads > 0
          /\ budget' = [budget EXCEPT !.reads = @ - 1]
          /\ \E chunk \in InChunks : wrBuf' = [wrBuf EXCEPT ![r] = chunk]
          /\ wrPc' = [wrPc EXCEPT ![r] = "fwd"]
    /\ UNCHANGED <<fileVars, startPc, mainPc, memVars, shell, rdPc, rdBuf,
                   rdHist, ptyIn, ckPc, stopVars>>

\* a faulty writer thread: the chunk is logged but never written to the PTY
WriterForwardSkip(r) ==
    /\ Alive(r)
    /\ wrPc[r] = "fwd"
    /\ wrPc' = [wrPc EXCEPT ![r] = "push"]
    /\ UNCHANGED <<fileVars, budget, startPc, mainPc, memVars, shell, rdPc,
                   rdBuf, rdHist, wrBuf, ptyIn, ckPc, stopVars>>

\* lines 214-217, writer.write_all(&buffer[..n]): the chunk reaches the PTY,
\* or the thread ends on the error
WriterForward(r) ==
    /\ Alive(r)
    /\ wrPc[r] = "fwd"
    /\ \/ /\ ptyIn' = [ptyIn EXCEPT ![r] = Append(@, wrBuf[r])]
          /\ wrPc' = [wrPc EXCEPT ![r] = "push"]
          /\ UNCHANGED wrBuf
       \/ /\ wrPc' = [wrPc EXCEPT ![r] = "done"]
          /\ wrBuf' = [wrBuf EXCEPT ![r] = <<>>]
          /\ UNCHANGED ptyIn
    /\ UNCHANGED <<fileVars, budget, startPc, mainPc, memVars, shell, rdPc,
                   rdBuf, rdHist, ckPc, stopVars>>

\* lines 218-224: decode, lock, push an input event stamped with the
\* clock's reading, unlock
WriterPush(r) ==
    /\ Alive(r)
    /\ wrPc[r] = "push"
    /\ lock[r] = "none"
    /\ \E t \in ClockReadings(r) :
          /\ elapsed' = [elapsed EXCEPT ![r] = t]
          /\ events' = [events EXCEPT ![r] =
                          push(@, TerminalEvent(t,
                                     Some(from_utf8_lossy(wrBuf[r])), None))]
    /\ wrPc' = [wrPc EXCEPT ![r] = "read"]
    /\ wrBuf' = [wrBuf EXCEPT ![r] = <<>>]
    /\ UNCHANGED <<fileVars, budget, startPc, mainPc, running, handler, sig,
                   shell, lock, rdPc, rdBuf, rdHist, ptyIn, ckPc, stopVars>>

\* -------------------------------------------------------- checkpoint thread
\* lines 234-238: after the sleep, lock the log; an empty log is skipped and
\* the guard dropped, otherwise the guard is kept for the rest of the round
CkLock(r) ==
    /\ Alive(r)
    /\ ckPc[r] = "sleep"
    /\ lock[r] = "none"
    /\ IF events[r] = <<>>
       THEN UNCHANGED <<lock, ckPc>>
       ELSE /\ lock' = [lock EXCEPT ![r] = "ckpt"]
            /\ ckPc' = [ckPc EXCEPT ![r] = "create"]
    /\ UNCHANGED <<fileVars, budget, startPc, mainPc, running, handler, sig,
                   elapsed, shell, events, rdPc, rdBuf, rdHist, wrPc, wrBuf,
                   ptyIn, stopVars>>

\* a faulty checkpoint round: an error of File::create ends the thread
\* (fs::write(..).unwrap())
CkCreateFatal(r) ==
    /\ Alive(r)
    /\ ckPc[r] = "create"
    /\ \/ /\ recFile' = FileCreate
          /\ ckPc' = [ckPc EXCEPT ![r] = "write"]
          /\ UNCHANGED lock
       \/ /\ ckPc' = [ckPc EXCEPT ![r] = "done"]
          /\ lock' = [lock EXCEPT ![r] = "none"]
          /\ UNCHANGED recFile
    /\ UNCHANGED <<pidFile, gifFile, budget, startPc, mainPc, running, handler,
                   sig, elapsed, shell, events, rdPc, rdBuf, rdHist, wrPc,
                   wrBuf, ptyIn, stopVars>>

\* lines 239-240: to_string, then fs::write's File::create; an error is
\* ignored and ends the round
CkCreate(r) ==
    /\ Alive(r)
    /\ ckPc[r] = "create"
    /\ \/ /\ recFile' = FileCreate
          /\ ckPc' = [ckPc EXCEPT ![r] = "write"]
          /\ UNCHANGED lock
       \/ /\ ckPc' = [ckPc EXCEPT ![r] = "sleep"]
          /\ lock' = [lock EXCEPT ![r] = "none"]
          /\ UNCHANGED recFile
    /\ UNCHANGED <<pidFile, gifFile, budget, startPc, mainPc, running, handler,
                   sig, elapsed, shell, events, rdPc, rdBuf, rdHist, wrPc,
                   wrBuf, ptyIn, stopVars>>

\* a faulty checkpoint round: the log is drained once it has been saved
CkWriteDrain(r) ==
    /\ Alive(r)
    /\ ckPc[r] = "write"
    /\ \/ recFile' = to_string(events[r])
       \/ UNCHANGED recFile
    /\ events' = [events EXCEPT ![r] = <<>>]
    /\ ckPc' = [ckPc EXCEPT ![r] = "sleep"]
    /\ lock' = [lock EXCEPT ![r] = "none"]
    /\ UNCHANGED <<pidFile, gifFile, budget, startPc, mainPc, running, handler,
                   sig, elapsed, shell, rdPc, rdBuf, rdHist, wrPc,
                   wrBuf, ptyIn, stopVars>>

\* line 240-241: fs::write's write_all, its result ignored; the guard is
\* dropped at the end of the round
CkWrite(r) ==
    /\ Alive(r)
    /\ ckPc[r] = "write"
    /\ \/ recFile' = to_string(events[r])
       \/ UNCHANGED recFile
    /\ ckPc' = [ckPc EXCEPT ![r] = "sleep"]
    /\ lock' = [lock EXCEPT ![r] = "none"]
    /\ UNCHANGED <<pidFile, gifFile, budget, startPc, mainPc, running, handler,
                   sig, elapsed, shell, events, rdPc, rdBuf, rdHist, wrPc,
                   wrBuf, ptyIn, stopVars>>

\* -------------------------------------------------------- `demoterm stop`
recVars == <<mainPc, running, handler, sig, elapsed, shell, lock, events>>

\* how a stop command can have ended: exit 0 ("Ok") or one of the failures
StopResults == {"NoActiveSession", "IoError", "InvalidPid", "KillFailed",
                "StillRunning", "GifFailed", "NoEvents", "Panic", "Ok"}

StopEnds(c, how) == stopPc' = [stopPc EXCEPT ![c] = how]

\* Commands::Stop, lines 81-84: the check for the PID file.  Stop commands
\* are issued one after the other.
StopCheck(c) ==
    /\ stopPc[c] = "idle"
    /\ \A d \in Stops : d < c => stopPc[d] \in StopResults
    /\ StopEnds(c, IF pidFile.exists THEN "read" ELSE "NoActiveSession")
    /\ UNCHANGED <<fileVars, budget, startPc, recVars, threadVars, stopPid,
                   retries, gif>>

\* lines 87-95: read_to_string(PID_FILE)?, then trim().parse()
StopRead(c) ==
    /\ stopPc[c] = "read"
    /\ IF ~pidFile.exists
       THEN StopEnds(c, "IoError") /\ UNCHANGED stopPid
       ELSE IF ParsePid(pidFile) < 0
            THEN StopEnds(c, "InvalidPid") /\ UNCHANGED stopPid
            ELSE /\ StopEnds(c, "kill")
                 /\ stopPid' = [stopPid EXCEPT ![c] = ParsePid(pidFile)]
    /\ UNCHANGED <<fileVars, budget, startPc, recVars, threadVars, retries,
                   gif>>

\* the live recorder process with this pid, if any
RecorderOf(pid) == {r \in Recs : getpid(r) = pid /\ Alive(r)}

\* lines 98-104, kill(pid, SIGTERM): ESRCH when no such process lives; the
\* signal runs the handler once it is installed and ends the process before
StopKill(c) ==
    /\ stopPc[c] = "kill"
    /\ IF RecorderOf(stopPid[c]) = {}
       THEN /\ StopEnds(c, "KillFailed")
            /\ UNCHANGED <<retries, recVars, threadVars>>
       ELSE \E r \in RecorderOf(stopPid[c]) :
            /\ StopEnds(c, "wait")
            /\ retries' = [retries EXCEPT ![c] = RETRIES]
            /\ IF handler[r]
               THEN /\ sig' = [sig EXCEPT ![r] = TRUE]
                    /\ UNCHANGED <<mainPc, running, handler, elapsed, shell,
                                   lock, events, threadVars>>
               ELSE /\ ProcessEnds(r, "killed")
                    /\ UNCHANGED shell
    /\ UNCHANGED <<fileVars, budget, startPc, stopPid, gif>>

\* lines 105-108: one round of the wait loop.  A round that finds the PID
\* file with retries left sleeps and counts down.  Of the counter the model
\* keeps whether it has run out: no other step reads it and the rounds are
\* not synchronised with the recorder, so which round is the last one is a
\* free choice.  The counter is dead once the loop is left.
StopWait(c) ==
    /\ stopPc[c] = "wait"
    /\ \/ /\ pidFile.exists /\ retries[c] > 0
          /\ UNCHANGED <<stopPc, retries>>
       \/ /\ StopEnds(c, "check")
          /\ retries' = [retries EXCEPT ![c] = 0]
    /\ UNCHANGED <<fileVars, budget, startPc, recVars, threadVars, stopPid,
                   gif>>

\* a faulty stop: the PID file is not looked at after the wait
StopGoneUnchecked(c) ==
    /\ stopPc[c] = "check"
    /\ StopEnds(c, "gif")
    /\ UNCHANGED <<fileVars, budget, startPc, recVars, threadVars, stopPid,
                   retries, gif>>

\* lines 110-115: the PID file must be gone
StopGone(c) ==
    /\ stopPc[c] = "check"
    /\ StopEnds(c, IF pidFile.exists THEN "StillRunning" ELSE "gif")
    /\ UNCHANGED <<fileVars, budget, startPc, recVars, threadVars, stopPid,
                   retries, gif>>

\* ------------------------------------------------------------ generate_gif
\* screen.push_str(s)
push_str(screen, s) == screen \o s

\* a faulty accumulation: what the user typed is left out
AccumulateOutput(screen, event) ==
    IF event.output # None THEN push_str(screen, event.output[1]) ELSE screen

\* lines 296-301: one event's payloads are added to the screen buffer
Accumulate(screen, event) ==
    LET s1 == IF event.input # None
              THEN push_str(screen, event.input[1]) ELSE screen
    IN  IF event.output # None THEN push_str(s1, event.output[1]) ELSE s1

\* render_text_to_image: the image is a function of the text
render_text_to_image(text) == <<"RgbImage", text>>

\* a faulty replay: the output file is created before the log is read
GifReadEager(c) ==
    /\ stopPc[c] = "gif"
    /\ gif[c].pc = "idle"
    /\ gifFile' = [exists |-> TRUE, frames |-> <<>>]
    /\ IF ~recFile.exists \/ ~DecodeOk(recFile)
       THEN StopEnds(c, "GifFailed") /\ UNCHANGED gif
       ELSE IF from_str(recFile) = <<>>
            THEN StopEnds(c, "NoEvents") /\ UNCHANGED gif
            ELSE /\ gif' = [gif EXCEPT ![c] =
                       [pc |-> "font", events |-> from_str(recFile),
                        screen |-> <<>>, frames |-> <<>>,
                        log |-> from_str(recFile)]]
                 /\ UNCHANGED stopPc
    /\ UNCHANGED <<pidFile, recFile, budget, startPc, recVars, threadVars,
                   stopPid, retries>>

\* lines 269-275: read the recording, decode it, refuse an empty log
GifRead(c) ==
    /\ stopPc[c] = "gif"
    /\ gif[c].pc = "idle"
    /\ IF ~recFile.exists \/ ~DecodeOk(recFile)
       THEN StopEnds(c, "GifFailed") /\ UNCHANGED gif
       ELSE IF from_str(recFile) = <<>>
            THEN StopEnds(c, "NoEvents") /\ UNCHANGED gif
            ELSE /\ gif' = [gif EXCEPT ![c] =
                       [pc |-> "font", events |-> from_str(recFile),
                        screen |-> <<>>, frames |-> <<>>,
                        log |-> from_str(recFile)]]
                 /\ UNCHANGED stopPc
    /\ UNCHANGED <<fileVars, budget, startPc, recVars, threadVars, stopPid,
                   retries>>

\* lines 279-292: the font is read and parsed, or the process panics
GifFont(c) ==
    /\ stopPc[c] = "gif"
    /\ gif[c].pc = "font"
    /\ \/ gif' = [gif EXCEPT ![c].pc = "render"] /\ UNCHANGED stopPc
       \/ StopEnds(c, "Panic") /\ gif' = [gif EXCEPT ![c] = GifIdle]
    /\ UNCHANGED <<fileVars, budget, startPc, recVars, threadVars, stopPid,
                   retries>>

\* lines 295-306: one iteration of the loop over the events, or its end
GifRender(c) ==
    /\ stopPc[c] = "gif"
    /\ gif[c].pc = "render"
    /\ IF gif[c].events = <<>>
       THEN gif' = [gif EXCEPT ![c].pc = "create"]
       ELSE LET scr == Accumulate(gif[c].screen, Head(gif[c].events))
            IN  gif' = [gif EXCEPT ![c].events = Tail(@),
                                   ![c].screen = scr,
                                   ![c].frames =
                                       Append(@, render_text_to_image(scr))]
    /\ UNCHANGED <<fileVars, budget, startPc, recVars, threadVars, stopPc,
                   stopPid, retries>>

\* lines 309-314: File::create(GIF_FILE)?, then the encoder writes its header
GifCreate(c) ==
    /\ stopPc[c] = "gif"
    /\ gif[c].pc = "create"
    /\ \/ /\ gifFile' = [exists |-> TRUE, frames |-> <<>>]
          /\ gif' = [gif EXCEPT ![c].pc = "write"]
          /\ UNCHANGED stopPc
       \/ /\ StopEnds(c, "GifFailed")
          /\ gif' = [gif EXCEPT ![c] = GifIdle]
          /\ UNCHANGED gifFile
       \/ /\ gifFile' = [exists |-> TRUE, frames |-> <<>>]
          /\ StopEnds(c, "GifFailed")
          /\ gif' = [gif EXCEPT ![c] = GifIdle]
    /\ UNCHANGED <<pidFile, recFile, budget, startPc, recVars, threadVars,
                   stopPid, retries>>

\* lines 316-326: one frame is written, or, after the last one, Ok(())
GifWriteFrame(c) ==
    /\ stopPc[c] = "gif"
    /\ gif[c].pc = "write"
    /\ IF gif[c].frames = <<>>
       THEN /\ StopEnds(c, "cleanup")
            /\ gif' = [gif EXCEPT ![c] = GifIdle]
            /\ UNCHANGED gifFile
       ELSE \/ /\ gifFile' = [gifFile EXCEPT !.exists = TRUE,
                                 !.frames = Append(@, Head(gif[c].frames))]
               /\ gif' = [gif EXCEPT ![c].frames = Tail(@)]
               /\ UNCHANGED stopPc
            \/ /\ StopEnds(c, "GifFailed")
               /\ gif' = [gif EXCEPT ![c] = GifIdle]
               /\ UNCHANGED gifFile
    /\ UNCHANGED <<pidFile, recFile, budget, startPc, recVars, threadVars,
                   stopPid, retries>>

\* lines 119-133: the recording file is removed, errors ignored; exit 0
StopCleanup(c) ==
    /\ stopPc[c] = "cleanup"
    /\ recFile' = NoFile
    /\ StopEnds(c, "Ok")
    /\ UNCHANGED <<pidFile, gifFile, budget, startPc, recVars, threadVars,
                   stopPid, retries, gif>>

\* ------------------------------------------------------------ specification
Next ==
    \/ \E s \in Starts : StartCheck(s)
    \/ \E s \in Starts : StartFork(s)
    \/ \E r \in Recs : RecCreatePid(r)
    \/ \E r \in Recs : RecWritePid(r)
    \/ \E r \in Recs : RecSetHandler(r)
    \/ \E r \in Recs : RecOpenPty(r)
    \/ \E r \in Recs : RecSpawn(r)
    \/ \E r \in Recs : RecCloneReader(r)
    \/ \E r \in Recs : RecTakeWriter(r)
    \/ \E r \in Recs : Handler(r)
    \/ \E r \in Recs : RecPoll(r)
    \/ \E r \in Recs : RecKill(r)
    \/ \E r \in Recs : RecWait(r)
    \/ \E r \in Recs : RecLock(r)
    \/ \E r \in Recs : RecPersistCreate(r)
    \/ \E r \in Recs : RecPersistWrite(r)
    \/ \E r \in Recs : RecRemovePid(r)
    \/ \E r \in Recs : RecExit(r)
    \/ \E r \in Recs : ShellExit(r)
    \/ \E r \in Recs : ReaderRead(r)
    \/ \E r \in Recs : ReaderPush(r)
    \/ \E r \in Recs : WriterRead(r)
    \/ \E r \in Recs : WriterForward(r)
    \/ \E r \in Recs : WriterPush(r)
    \/ \E r \in Recs : CkLock(r)
    \/ \E r \in Recs : CkCreate(r)
    \/ \E r \in Recs : CkWrite(r)
    \/ \E c \in Stops : StopCheck(c)
    \/ \E c \in Stops : StopRead(c)
    \/ \E c \in Stops : StopKill(c)
    \/ \E c \in Stops : StopWait(c)
    \/ \E c \in Stops : StopGone(c)
    \/ \E c \in Stops : GifRead(c)
    \/ \E c \in Stops : GifFont(c)
    \/ \E c \in Stops : GifRender(c)
    \/ \E c \in Stops : GifCreate(c)
    \/ \E c \in Stops : GifWriteFrame(c)
    \/ \E c \in Stops : StopCleanup(c)

\* one session: one start command, one stop command, a talkative terminal
Init == InitWith({1}, {1}, "idle", MaxReads, NoFile)
Spec == Init /\ [][Next]_vars

\* stopping again: one start command, every stop command, a quiet terminal
\* whose shell stays until the recorder terminates it
InitRetry == InitWith({1}, Stops, "idle", QuietReads, NoFile)
NextRetry ==
    \/ \E s \in Starts : StartCheck(s)
    \/ \E s \in Starts : StartFork(s)
    \/ \E r \in Recs : RecCreatePid(r)
    \/ \E r \in Recs : RecWritePid(r)
    \/ \E r \in Recs : RecSetHandler(r)
    \/ \E r \in Recs : RecOpenPty(r)
    \/ \E r \in Recs : RecSpawn(r)
    \/ \E r \in Recs : RecCloneReader(r)
    \/ \E r \in Recs : RecTakeWriter(r)
    \/ \E r \in Recs : Handler(r)
    \/ \E r \in Recs : RecPoll(r)
    \/ \E r \in Recs : RecKill(r)
    \/ \E r \in Recs : RecWait(r)
    \/ \E r \in Recs : RecLock(r)
    \/ \E r \in Recs : RecPersistCreate(r)
    \/ \E r \in Recs : RecPersistWrite(r)
    \/ \E r \in Recs : RecRemovePid(r)
    \/ \E r \in Recs : RecExit(r)
    \/ \E r \in Recs : ReaderRead(r)
    \/ \E r \in Recs : ReaderPush(r)
    \/ \E r \in Recs : WriterRead(r)
    \/ \E r \in Recs : WriterForward(r)
    \/ \E r \in Recs : WriterPush(r)
    \/ \E r \in Recs : CkLock(r)
    \/ \E r \in Recs : CkCreate(r)
    \/ \E r \in Recs : CkWrite(r)
    \/ \E c \in Stops : StopCheck(c)
    \/ \E c \in Stops : StopRead(c)
    \/ \E c \in Stops : StopKill(c)
    \/ \E c \in Stops : StopWait(c)
    \/ \E c \in Stops : StopGone(c)
    \/ \E c \in Stops : GifRead(c)
    \/ \E c \in Stops : GifFont(c)
    \/ \E c \in Stops : GifRender(c)
    \/ \E c \in Stops : GifCreate(c)
    \/ \E c \in Stops : GifWriteFrame(c)
    \/ \E c \in Stops : StopCleanup(c)
SpecRetry == InitRetry /\ [][NextRetry]_vars

\* starting: every start command and the recorder it forks, from the check
\* for the PID file to the control loop; no stop command is issued
InitStart == InitWith(Starts, {}, "idle", 0, NoFile)
NextStart ==
    \/ \E s \in Starts : StartCheck(s)
    \/ \E s \in Starts : StartFork(s)
    \/ \E r \in Recs : RecCreatePid(r)
    \/ \E r \in Recs : RecWritePid(r)
    \/ \E r \in Recs : RecSetHandler(r)
    \/ \E r \in Recs : RecOpenPty(r)
    \/ \E r \in Recs : RecSpawn(r)
    \/ \E r \in Recs : RecCloneReader(r)
    \/ \E r \in Recs : RecTakeWriter(r)
    \/ \E r \in Recs : RecPoll(r)
SpecStart == InitStart /\ [][NextStart]_vars

\* replay alone: a stop command stands at line 115, the recording file holds
\* a log a recorder can have persisted, is absent or was left truncated
ReplayStrings == {from_utf8_lossy(c) : c \in InChunks \cup OutChunks}
ReplayEvents ==
    {TerminalEvent(t, Some(str), None) : t \in 0..MaxClock, str \in ReplayStrings}
    \cup
    {TerminalEvent(t, None, Some(str)) : t \in 0..MaxClock, str \in ReplayStrings}
ReplayLogs ==
    {l \in UNION {[1..n -> ReplayEvents] : n \in 0..MaxLogLen} :
        \A i \in 1..(Len(l) - 1) : l[i].timestamp <= l[i + 1].timestamp}

RecordingFiles == {to_string(l) : l \in ReplayLogs} \cup {NoFile, FileCreate}

InitReplay == \E rec \in RecordingFiles : InitWith({}, {1}, "gif", 0, rec)
NextReplay ==
    \/ \E c \in Stops : GifRead(c)
    \/ \E c \in Stops : GifFont(c)
    \/ \E c \in Stops : GifRender(c)
    \/ \E c \in Stops : GifCreate(c)
    \/ \E c \in Stops : GifWriteFrame(c)
    \/ \E c \in Stops : StopCleanup(c)
SpecReplay == InitReplay /\ [][NextReplay]_vars

\* one session under fair scheduling: the controller and the checkpoint
\* thread take the steps they can take, and the controller, which asks for
\* the lock while the checkpoint thread sleeps 5 s between two rounds, gets
\* it.  Nothing is assumed of the capture threads, of the shell or of the
\* commands.
LiveStarts == {1}
InitLive == InitWith(LiveStarts, {1}, "idle", QuietReads, NoFile)

\* the steps of the controller that do not wait for the lock, and the steps
\* of the checkpoint thread that hold it
Controller(r) ==
    \/ RecPoll(r) \/ RecKill(r) \/ RecWait(r)
    \/ RecPersistCreate(r) \/ RecPersistWrite(r) \/ RecRemovePid(r)
Checkpointing(r) == CkCreate(r) \/ CkWrite(r)

Fairness ==
    \A r \in LiveStarts :
        /\ WF_vars(Controller(r))
        /\ SF_vars(RecLock(r))
        /\ WF_vars(Checkpointing(r))
SpecLive == InitLive /\ [][Next]_vars /\ Fairness

\* ---------------------------------------------------------------- properties
IsPrefix(a, b) == Len(a) <= Len(b) /\ \A i \in 1..Len(a) : a[i] = b[i]

\* the subprocess has been waited for
Reaped == {"reaped_exited", "reaped_hungup"}

\* the chunks a capture thread has appended: all it has taken but the one it
\* still holds
Appended(chunks, pc) == Len(chunks) - (IF pc = "push" THEN 1 ELSE 0)

OutputsOf(log) == SelectSeq(log, LAMBDA e : e.output # None)
InputsOf(log) == SelectSeq(log, LAMBDA e : e.input # None)

\* C1: while a session is active the appends of the two capture threads do
\* not corrupt the log: it holds exactly one event per completed append,
\* each event carries the payload of one source only, the output events are
\* the decoded chunks read from the PTY, in order, and the input events the
\* decoded chunks forwarded to the PTY, in order.
C1_LogIntegrity ==
    \A r \in Recs :
        Alive(r) =>
            LET nOut == Appended(rdHist[r], rdPc[r])
                nIn == Appended(ptyIn[r], wrPc[r])
                outs == OutputsOf(events[r])
                ins == InputsOf(events[r])
            IN  /\ Len(events[r]) = nOut + nIn
                /\ \A i \in 1..Len(events[r]) :
                      (events[r][i].input = None) # (events[r][i].output = None)
                /\ [i \in 1..Len(outs) |-> outs[i].output[1]]
                     = [i \in 1..nOut |-> from_utf8_lossy(rdHist[r][i])]
                /\ [i \in 1..Len(ins) |-> ins[i].input[1]]
                     = [i \in 1..nIn |-> from_utf8_lossy(ptyIn[r][i])]

\* both threads have appended to the same log
C1_Witness ==
    \E r \in Recs :
        /\ Alive(r)
        /\ Len(events[r]) = 2
        /\ events[r][1].input # None
        /\ events[r][2].output # None

\* C2: while the session is active no step removes, reorders or rewrites an
\* event of the log: the log after a step extends the log before it, by at
\* most one event; checkpoints and the final persist leave it as it is.
C2_AppendOnly ==
    [][\A r \in Recs :
          mainPc'[r] \notin {"none"} \cup Ended =>
              /\ IsPrefix(events[r], events'[r])
              /\ Len(events'[r]) <= Len(events[r]) + 1]_vars

\* a checkpoint has saved a log of two events, and the log is still whole
C2_Witness ==
    \E r \in Recs :
        /\ Alive(r)
        /\ Len(events[r]) = 2
        /\ ckPc[r] = "sleep"
        /\ recFile = to_string(events[r])

\* C3: the PID file is removed only by a controller that holds the log, has
\* terminated and reaped its subprocess and has written the complete log,
\* empty or not, to the recording file; and wherever a controller has
\* removed the PID file its subprocess is reaped.
C3_ShutdownOrder ==
    [][/\ (pidFile.exists /\ ~pidFile'.exists) =>
             \E r \in Recs :
                 /\ mainPc[r] = "remove" /\ mainPc'[r] = "ret_ok"
                 /\ lock[r] = "main"
                 /\ shell[r] \in Reaped
                 /\ recFile = to_string(events[r])
                 /\ recFile' = recFile
       /\ \A r \in Recs :
             mainPc'[r] \in {"ret_ok", "exit0"} => shell'[r] \in Reaped]_vars

\* a controller has removed the PID file after persisting an empty log
C3_Witness ==
    \E r \in Recs :
        /\ mainPc[r] = "ret_ok"
        /\ ~pidFile.exists
        /\ events[r] = <<>>
        /\ recFile = to_string(<<>>)

\* C4: when the final persist fails the recorder leaves the PID file in
\* place, and the stop command that signalled it does not get past the wait
\* for the PID file: it ends with "Failed to terminate recorder process".
C4_PersistFailure ==
    \A r \in Recs :
        mainPc[r] = "err_persist" =>
            /\ pidFile = PidText(r)
            /\ \A c \in Stops :
                  stopPid[c] = getpid(r) =>
                      stopPc[c] \in {"wait", "check", "StillRunning"}

\* the final persist has failed and the stop command has reported failure
C4_Witness ==
    \E r \in Recs, c \in Stops :
        /\ mainPc[r] = "err_persist"
        /\ stopPid[c] = getpid(r)
        /\ stopPc[c] = "StillRunning"

\* the recorder's shutdown has failed at the termination of the subprocess
\* or at the final persist
ShutdownFailed(r) == mainPc[r] \in {"err_kill", "err_persist"}

\* the results of a stop command that has seen the PID file gone (line 115)
PastWait == {"gif", "cleanup", "Ok", "GifFailed", "NoEvents", "Panic"}

\* C5: after a stop that failed because the termination of the subprocess
\* or the final persist failed, the PID file is kept so that a later stop
\* request finds the session and acts on it: no stop request fails then
\* because the process named by the PID file is not there.
C5_RetryFindsSession ==
    \A r \in Recs :
        (ShutdownFailed(r) /\ pidFile = PidText(r)) =>
            \A c \in Stops : stopPc[c] # "KillFailed"

\* what the code does instead: once the shutdown has failed the PID file
\* stays for good and no stop request gets past the wait for it
C5_NoStopGetsThrough ==
    \A r \in Recs :
        ShutdownFailed(r) =>
            /\ pidFile = PidText(r)
            /\ \A c \in Stops : stopPc[c] \notin PastWait

\* C6: a start whose PTY or subprocess cannot be set up leaves no PID file
\* of its own behind, and a start is rejected as already running only while
\* a recorder lives.
C6_StartFailsAtomically ==
    /\ \A r \in Recs :
          mainPc[r] \in {"err_pty", "err_spawn"} => pidFile # PidText(r)
    /\ \A s \in Starts :
          startPc[s] = "AlreadyRunning" => \E r \in Recs : Alive(r)

\* C7: a start command that finds the PID file ends with "already in
\* progress": the step changes neither the PID file nor any recorder or
\* subprocess, and the command never has a recorder of its own.
C7_StartRefused ==
    [][\A s \in Starts :
          /\ (startPc[s] = "idle" /\ startPc'[s] # "idle" /\ pidFile.exists) =>
                /\ startPc'[s] = "AlreadyRunning"
                /\ pidFile' = pidFile
                /\ mainPc' = mainPc
                /\ shell' = shell
          /\ startPc[s] = "AlreadyRunning" =>
                /\ startPc'[s] = "AlreadyRunning"
                /\ mainPc'[s] = "none"
                /\ shell'[s] = "none"]_vars

\* a start command has been refused while another one's recorder runs
C7_Witness ==
    \E s \in Starts, r \in Recs :
        /\ startPc[s] = "AlreadyRunning"
        /\ mainPc[s] = "none"
        /\ mainPc[r] = "poll"
        /\ pidFile = PidText(r)

C9_DeadSubprocess ==
    [][\A r \in Recs :
          /\ (mainPc[r] = "kill" /\ shell[r] = "exited") =>
                mainPc'[r] \in {"kill", "wait"}
          /\ (shell'[r] = "reaped_exited" /\ mainPc'[r] \in Ended) =>
                mainPc'[r] \in {"exit0", "err_persist", "err_remove"}
          /\ (shell[r] = "reaped_exited" /\ mainPc[r] # "ret_ok"
                /\ mainPc'[r] = "ret_ok") =>
                /\ recFile = to_string(events[r])
                /\ ~pidFile'.exists]_vars

\* the subprocess ended by itself, and the controller has persisted a log
\* and removed the PID file
C9_Witness ==
    \E r \in Recs :
        /\ shell[r] = "reaped_exited"
        /\ mainPc[r] = "ret_ok"
        /\ events[r] # <<>>
        /\ recFile = to_string(events[r])
        /\ ~pidFile.exists

\* the payload of an event that has one
Payload(e) == IF e.input # None THEN e.input[1] ELSE e.output[1]

\* the payloads of the first n events, one after the other
RECURSIVE Concat(_, _)
Concat(log, n) ==
    IF n = 0 THEN <<>> ELSE Concat(log, n - 1) \o Payload(log[n])

\* C10: the replay of a non-empty log leaves the recording file as it was
\* and yields one frame per event, in the order of the log; frame i is the
\* rendering of the payloads of events 1..i put end to end.
C10_Replay ==
    \A c \in Stops :
        gif[c].pc \in {"render", "create"} =>
            LET done == Len(gif[c].log) - Len(gif[c].events)
            IN  /\ recFile = to_string(gif[c].log)
                /\ gif[c].log # <<>>
                /\ Len(gif[c].frames) = done
                /\ gif[c].pc = "create" => done = Len(gif[c].log)
                /\ \A i \in 1..done :
                      gif[c].frames[i] =
                          render_text_to_image(Concat(gif[c].log, i))

\* a log of an input and an output has been replayed to its end
C10_Witness ==
    \E c \in Stops :
        /\ gif[c].pc = "create"
        /\ Len(gif[c].frames) = 2
        /\ gif[c].log[1].input # None
        /\ gif[c].log[2].output # None

\* C11: a replay that fails because the recording cannot be read or
\* decoded, because the log is empty or because the font for the frames
\* cannot be loaded has not created the output file; the output file exists
\* only once every event of the log has been rendered to a frame, and holds
\* frames already rendered.
C11_NoPartialOutput ==
    \A c \in Stops :
        /\ (stopPc[c] = "gif" /\ gif[c].pc \in {"idle", "font", "render"}) =>
              ~gifFile.exists
        /\ stopPc[c] \in {"NoEvents", "Panic"} => ~gifFile.exists
        /\ (stopPc[c] = "GifFailed"
              /\ (~recFile.exists \/ ~DecodeOk(recFile))) => ~gifFile.exists
        /\ (stopPc[c] = "gif" /\ gifFile.exists) =>
              /\ gif[c].pc = "write"
              /\ gif[c].events = <<>>
              /\ Len(gifFile.frames) + Len(gif[c].frames) = Len(gif[c].log)
              /\ \A i \in 1..Len(gifFile.frames) :
                    gifFile.frames[i] =
                        render_text_to_image(Concat(gif[c].log, i))

\* the font could not be loaded for a decoded log of two events
C11_Witness ==
    \E c \in Stops :
        /\ stopPc[c] = "Panic"
        /\ Len(from_str(recFile)) = 2
        /\ ~gifFile.exists

\* C12: a chunk read from stdin is written to the PTY as it was read before
\* its input event is appended: every input event of the log is the decoding
\* of a chunk the PTY has received, in order, the chunk whose event is still
\* to be appended has been written already, and the write does not wait for
\* the log: it can be done whoever holds the lock.
C12_ForwardBeforeAppend ==
    \A r \in Recs :
        Alive(r) =>
            LET ins == InputsOf(events[r])
            IN  /\ Len(ins) <= Len(ptyIn[r])
                /\ \A i \in 1..Len(ins) :
                      ins[i].input[1] = from_utf8_lossy(ptyIn[r][i])
                /\ wrPc[r] = "push" =>
                      /\ Len(ptyIn[r]) = Len(ins) + 1
                      /\ ptyIn[r][Len(ptyIn[r])] = wrBuf[r]
                /\ wrPc[r] = "fwd" =>
                      /\ Len(ptyIn[r]) = Len(ins)
                      /\ ENABLED WriterForward(r)

\* a chunk has reached the PTY while its event waits for the lock that the
\* checkpoint thread holds
C12_Witness ==
    \E r \in Recs :
        /\ Alive(r)
        /\ wrPc[r] = "push"
        /\ lock[r] = "ckpt"
        /\ ptyIn[r] = <<wrBuf[r]>>
        /\ InputsOf(events[r]) = <<>>

NonDecreasing(log) ==
    \A i \in 1..(Len(log) - 1) : log[i].timestamp <= log[i + 1].timestamp

\* C13: in every state of the log the input events, and likewise the output
\* events, have non-decreasing timestamps in log order.
C13_Monotone ==
    \A r \in Recs :
        /\ NonDecreasing(InputsOf(events[r]))
        /\ NonDecreasing(OutputsOf(events[r]))

\* two output events, the clock having advanced from one to the other
C13_Witness ==
    \E r \in Recs :
        /\ Len(OutputsOf(events[r])) = 2
        /\ events[r][1].timestamp < events[r][2].timestamp

\* C14: every event of the log and every object of the recording file has
\* exactly one payload: exactly one of input and output is not null.
C14_OnePayload ==
    /\ \A r \in Recs : \A i \in 1..Len(events[r]) :
          (events[r][i].input = None) # (events[r][i].output = None)
    /\ \A i \in 1..Len(recFile.items) :
          (recFile.items[i].input = JNull) # (recFile.items[i].output = JNull)

\* the recording file holds an input object and an output object
C14_Witness ==
    /\ recFile.closed
    /\ Len(recFile.items) = 2
    /\ recFile.items[1].input # JNull
    /\ recFile.items[2].output # JNull

\* a step in which the checkpoint thread's write of the recording file
\* fails: at File::create, or at write_all
CheckpointFails(r) ==
    \/ ckPc[r] = "create" /\ ckPc'[r] \notin {"create", "write", "off"}
    \/ ckPc[r] = "write" /\ ckPc'[r] \notin {"write", "off"}
          /\ recFile' = recFile

\* C15: a failed periodic persist changes nothing but the checkpoint
\* thread: the controller stays where it is, the liveness flag, the log and
\* the PID file are unchanged, and the checkpoint thread drops the lock and
\* sleeps until its next round.
C15_CheckpointFailure ==
    [][\A r \in Recs :
          CheckpointFails(r) =>
              /\ mainPc'[r] = mainPc[r]
              /\ running'[r] = running[r]
              /\ events'[r] = events[r]
              /\ pidFile' = pidFile
              /\ rdPc'[r] = rdPc[r] /\ wrPc'[r] = wrPc[r]
              /\ ckPc'[r] = "sleep"
              /\ lock'[r] = "none"]_vars

\* a periodic persist has failed after truncating the recording file, and
\* the session runs on with its log
C15_Witness ==
    \E r \in Recs :
        /\ mainPc[r] = "poll" /\ running[r]
        /\ ckPc[r] = "sleep"
        /\ events[r] # <<>>
        /\ recFile = FileCreate
        /\ pidFile = PidText(r)

\* C16: nobody writes the recording file while holding the lock of the log:
\* the checkpoint thread and the controller have released it before they
\* create and write the file, so a capture thread with a chunk to append is
\* not kept waiting by a write of the file.
C16_NoIoUnderLock ==
    \A r \in Recs :
        /\ ckPc[r] \in {"create", "write"} => lock[r] # "ckpt"
        /\ mainPc[r] \in {"persist", "persist2"} => lock[r] # "main"
        /\ (rdPc[r] = "push"
              /\ (ckPc[r] \in {"create", "write"}
                     \/ mainPc[r] \in {"persist", "persist2"})) =>
              ENABLED ReaderPush(r)

\* C17: under fair scheduling, once the liveness flag is false the
\* controller leaves its loop and goes on to remove the PID file, unless
\* the termination of the subprocess, the final persist or the removal
\* fails; no step of the capture threads is needed for it.
C17_StopLiveness ==
    \A r \in LiveStarts :
        (mainPc[r] = "poll" /\ ~running[r]) ~>
            \/ mainPc[r] = "ret_ok" /\ ~pidFile.exists
            \/ mainPc[r] \in {"err_kill", "err_persist", "err_remove"}

\* the PID file has been removed while the writer thread still sits in its
\* read of stdin
C17_Witness ==
    \E r \in Recs :
        /\ mainPc[r] = "ret_ok"
        /\ ~pidFile.exists
        /\ wrPc[r] = "read"

\* C18: whenever a stop command has seen the PID file gone and is about to
\* read the recording file, the file holds a complete log with the
\* controller's final snapshot in it.  The log only grows and the lock
\* keeps checkpoints and the final persist apart, so a complete log written
\* after the final persist contains the final snapshot: what can go wrong
\* is a file that is missing, truncated or partly written.
C18_FinalPersistWins ==
    \A c \in Stops :
        (stopPc[c] = "gif" /\ gif[c].pc = "idle") =>
            /\ recFile.exists
            /\ DecodeOk(recFile)
            /\ \A r \in Recs :
                  mainPc[r] = "ret_ok" =>
                      IsPrefix(from_str(recFile), events[r])

\* C19: the end of a capture thread is no event of the session.  The step
\* in which the reader or the writer thread leaves its loop changes neither
\* the controller, the liveness flag, the PID file, the log nor the other
\* threads; and a thread that has left its loop stays out of it and appends
\* nothing.
C19_SourceEnds ==
    [][\A r \in Recs :
          /\ ((rdPc[r] # "done" /\ rdPc'[r] = "done")
                 \/ (wrPc[r] # "done" /\ wrPc'[r] = "done")) =>
                /\ mainPc'[r] = mainPc[r]
                /\ running'[r] = running[r]
                /\ pidFile' = pidFile
                /\ events'[r] = events[r]
                /\ ckPc'[r] = ckPc[r]
                /\ rdPc'[r] = rdPc[r] \/ wrPc'[r] = wrPc[r]
          /\ (rdPc[r] = "done" /\ mainPc'[r] \notin Ended) =>
                /\ rdPc'[r] = "done"
                /\ OutputsOf(events'[r]) = OutputsOf(events[r])
          /\ (wrPc[r] = "done" /\ mainPc'[r] \notin Ended) =>
                /\ wrPc'[r] = "done"
                /\ InputsOf(events'[r]) = InputsOf(events[r])]_vars

\* the reader thread has ended; the session runs, the writer thread has
\* appended an event and the checkpoint thread is writing
C19_Witness ==
    \E r \in Recs :
        /\ rdPc[r] = "done"
        /\ mainPc[r] = "poll" /\ running[r]
        /\ pidFile = PidText(r)
        /\ Len(InputsOf(events[r])) = 1
        /\ ckPc[r] = "write"

\* the recorder runs: it is in its control loop
Running(r) == mainPc[r] = "poll"

\* C20: however start commands interleave, at most one recorder runs, and
\* the PID file names the recorder that runs.
C20_OneSession ==
    /\ Cardinality({r \in Recs : Running(r)}) <= 1
    /\ \A r \in Recs : Running(r) => pidFile = PidText(r)

====
